---- MODULE Spec2Model ----
(***************************************************************************)
(* Creator Social API (src/main.py): the seed procedure, the two query     *)
(* endpoints and the diagnostics endpoint over a document store holding    *)
(* the collections "segment" and "creator".                                *)
(*                                                                         *)
(* A stored document is a function from field names to values; a field a   *)
(* document lacks is outside its DOMAIN.  Python's None is the value None. *)
(* The float field `rating` is held in tenths (4.7 is 47, 0.0 is 0).       *)
(* A text that the code slices (an exception message) is a sequence of     *)
(* one-character strings.                                                  *)
(***************************************************************************)
EXTENDS Integers, Sequences, FiniteSets, TLC

VARIABLES
    env_url,        \* os.getenv("DATABASE_URL"); "" when unset
    env_name,       \* os.getenv("DATABASE_NAME"); "" when unset
    db,             \* the database handle imported from `database`, or None
    segment_coll,   \* db["segment"]: documents in insertion order
    creator_coll,   \* db["creator"]: documents in insertion order
    store0,         \* the two collections as they were when the process started
    next_id,        \* the next _id the store assigns
    seed,           \* per handler thread of POST /seed: its position and locals
    seed_resps,     \* the responses of POST /seed, in order of completion
    resp            \* the response of the latest other request

vars == <<env_url, env_name, db, segment_coll, creator_coll, store0, next_id,
          seed, seed_resps, resp>>

----------------------------------------------------------------------------
(* Bounds of the model *)

\* how many POST /seed requests are issued in one behaviour
MaxSeeds == 2
\* how many documents each collection holds before the first request
MaxInitDocs == 3

----------------------------------------------------------------------------
(* Python values *)

None == [none |-> TRUE]

Min(a, b) == IF a <= b THEN a ELSE b

Abs(n) == IF n < 0 THEN 0 - n ELSE n

\* d.get(k, default)
Get(d, k, default) == IF k \in DOMAIN d THEN d[k] ELSE default

\* s[:n] for n >= 0
Prefix(s, n) == SubSeq(s, 1, Min(n, Len(s)))

Range(s) == {s[i] : i \in 1..Len(s)}

----------------------------------------------------------------------------
(* The seed catalogs of seed_data *)

segments_seed == <<
    [name |-> "Technology", slug |-> "technology",
     description |-> "Tech reviews, coding, gadgets", color |-> "#60A5FA"],
    [name |-> "Gaming", slug |-> "gaming",
     description |-> "Let\"s plays, esports, streaming", color |-> "#A78BFA"],
    [name |-> "Lifestyle", slug |-> "lifestyle",
     description |-> "Wellness, productivity, daily vlogs", color |-> "#34D399"],
    [name |-> "Education", slug |-> "education",
     description |-> "Explainers, tutorials, lectures", color |-> "#F59E0B"] >>

creators_seed == <<
    [name |-> "TechNova", handle |-> "technova",
     platforms |-> <<"YouTube", "X", "TikTok">>,
     avatar_url |-> "https://i.pravatar.cc/150?img=11",
     bio |-> "Deep dives into emerging tech.",
     segments |-> <<"technology">>,
     followers |-> 1200000, rating |-> 47, verified |-> TRUE],
    [name |-> "GamePulse", handle |-> "gamepulse",
     platforms |-> <<"Twitch", "YouTube">>,
     avatar_url |-> "https://i.pravatar.cc/150?img=12",
     bio |-> "Strategy breakdowns and chill streams.",
     segments |-> <<"gaming">>,
     followers |-> 860000, rating |-> 45, verified |-> TRUE],
    [name |-> "DailyFlow", handle |-> "dailyflow",
     platforms |-> <<"Instagram", "YouTube">>,
     avatar_url |-> "https://i.pravatar.cc/150?img=13",
     bio |-> "Wellness routines that actually stick.",
     segments |-> <<"lifestyle">>,
     followers |-> 430000, rating |-> 43, verified |-> FALSE],
    [name |-> "ProfLearn", handle |-> "proflearn",
     platforms |-> <<"YouTube", "Udemy">>,
     avatar_url |-> "https://i.pravatar.cc/150?img=14",
     bio |-> "Clear, concise CS courses.",
     segments |-> <<"education", "technology">>,
     followers |-> 650000, rating |-> 48, verified |-> TRUE] >>

SeedSlugs == {segments_seed[i].slug : i \in 1..Len(segments_seed)}

SeedHandles == {creators_seed[i].handle : i \in 1..Len(creators_seed)}

----------------------------------------------------------------------------
(* The document store *)

\* the handle `database` exports: a database when both settings are present
connect(url, name) ==
    IF url # "" /\ name # "" THEN [database |-> name] ELSE None

\* find_one looking the value up in the field "name" instead of the key field
find_one_by_name(coll, k, v) ==
    LET hits == {i \in 1..Len(coll) : "name" \in DOMAIN coll[i] /\ coll[i]["name"] = v}
    IN  IF hits = {} THEN None
        ELSE coll[CHOOSE i \in hits : \A j \in hits : i <= j]

\* collection.find_one({k: v}): the first document whose field k is v, or None
find_one(coll, k, v) ==
    LET hits == {i \in 1..Len(coll) : k \in DOMAIN coll[i] /\ coll[i][k] = v}
    IN  IF hits = {} THEN None
        ELSE coll[CHOOSE i \in hits : \A j \in hits : i <= j]

\* collection.insert_one(doc): the store gives the document its _id
insert_one(coll, doc, id) ==
    Append(coll, [k \in DOMAIN doc \cup {"_id"} |->
                      IF k = "_id" THEN id ELSE doc[k]])

----------------------------------------------------------------------------
(* POST /seed, one store call per step *)

not_configured ==
    [status |-> 500, detail |-> "Database not configured", store_ops |-> 0]

\* the guard left out
db_is_none_never(dbh) == FALSE

\* `if db is None` at the head of seed_data, list_segments and top_creators
db_is_none(dbh) == dbh = None

\* `if not coll.find_one(...)`: nothing was found
not_found(found) == found = None

idle == [pc |-> "idle", i |-> 0, created_segments |-> 0,
         created_creators |-> 0, store_ops |-> 0]

SeedsBegun ==
    Len(seed_resps) + Cardinality({p \in DOMAIN seed : seed[p].pc # "idle"})

\* the loop over segments_seed moves on to its next item, or to creators_seed
seg_advance(s) ==
    IF s.i < Len(segments_seed)
    THEN [s EXCEPT !.pc = "seg_find", !.i = s.i + 1]
    ELSE [s EXCEPT !.pc = "crt_find", !.i = 1]

\* the loop over creators_seed moves on to its next item, or to the return
crt_advance(s) ==
    IF s.i < Len(creators_seed)
    THEN [s EXCEPT !.pc = "crt_find", !.i = s.i + 1]
    ELSE [s EXCEPT !.pc = "return", !.i = 0]

\* the existence check left out: every seed segment is inserted
seg_found_step_always_inserts(s, found) ==
    [s EXCEPT !.store_ops = s.store_ops + 1, !.pc = "seg_insert"]

\* after seg_coll.find_one({"slug": seg["slug"]})
seg_found_step(s, found) ==
    LET t == [s EXCEPT !.store_ops = s.store_ops + 1]
    IN  IF not_found(found) THEN [t EXCEPT !.pc = "seg_insert"]
        ELSE seg_advance(t)

\* the insert without `created_segments += 1`
seg_inserted_step_uncounted(s) ==
    seg_advance([s EXCEPT !.store_ops = s.store_ops + 1])

\* after seg_coll.insert_one({**seg}); created_segments += 1
seg_inserted_step(s) ==
    seg_advance([s EXCEPT !.store_ops = s.store_ops + 1,
                          !.created_segments = s.created_segments + 1])

\* after crt_coll.find_one({"handle": crt.get("handle")})
crt_found_step(s, found) ==
    LET t == [s EXCEPT !.store_ops = s.store_ops + 1]
    IN  IF not_found(found) THEN [t EXCEPT !.pc = "crt_insert"]
        ELSE crt_advance(t)

\* after crt_coll.insert_one({**crt}); created_creators += 1
crt_inserted_step(s) ==
    crt_advance([s EXCEPT !.store_ops = s.store_ops + 1,
                          !.created_creators = s.created_creators + 1])

\* SeedResponse(segments_created=..., creators_created=...)
SeedResponse(s) ==
    [status |-> 200, segments_created |-> s.created_segments,
     creators_created |-> s.created_creators, store_ops |-> s.store_ops]

NoResp == [endpoint |-> "none"]

seed_begin(p) ==
    /\ seed[p].pc = "idle"
    /\ SeedsBegun < MaxSeeds
    /\ resp = NoResp
    /\ IF db_is_none(db)
       THEN /\ seed_resps' = Append(seed_resps, not_configured)
            /\ UNCHANGED seed
       ELSE /\ seed' = [seed EXCEPT ![p] = [idle EXCEPT !.pc = "seg_find", !.i = 1]]
            /\ UNCHANGED seed_resps
    /\ UNCHANGED <<env_url, env_name, db, segment_coll, creator_coll, store0,
                   next_id, resp>>

seed_seg_find(p) ==
    /\ seed[p].pc = "seg_find"
    /\ seed' = [seed EXCEPT ![p] =
            seg_found_step(@, find_one(segment_coll, "slug", segments_seed[@.i].slug))]
    /\ UNCHANGED <<env_url, env_name, db, segment_coll, creator_coll, store0,
                   next_id, seed_resps, resp>>

seed_seg_insert(p) ==
    /\ seed[p].pc = "seg_insert"
    /\ segment_coll' = insert_one(segment_coll, segments_seed[seed[p].i], next_id)
    /\ next_id' = next_id + 1
    /\ seed' = [seed EXCEPT ![p] = seg_inserted_step(@)]
    /\ UNCHANGED <<env_url, env_name, db, creator_coll, store0, seed_resps, resp>>

seed_crt_find(p) ==
    /\ seed[p].pc = "crt_find"
    /\ seed' = [seed EXCEPT ![p] =
            crt_found_step(@, find_one(creator_coll, "handle",
                                       Get(creators_seed[@.i], "handle", None)))]
    /\ UNCHANGED <<env_url, env_name, db, segment_coll, creator_coll, store0,
                   next_id, seed_resps, resp>>

seed_crt_insert(p) ==
    /\ seed[p].pc = "crt_insert"
    /\ creator_coll' = insert_one(creator_coll, creators_seed[seed[p].i], next_id)
    /\ next_id' = next_id + 1
    /\ seed' = [seed EXCEPT ![p] = crt_inserted_step(@)]
    /\ UNCHANGED <<env_url, env_name, db, segment_coll, store0, seed_resps, resp>>

seed_return(p) ==
    /\ seed[p].pc = "return"
    /\ seed_resps' = Append(seed_resps, SeedResponse(seed[p]))
    /\ seed' = [seed EXCEPT ![p] = idle]
    /\ UNCHANGED <<env_url, env_name, db, segment_coll, creator_coll, store0,
                   next_id, resp>>

seed_data(p) ==
    \/ seed_begin(p)
    \/ seed_seg_find(p)
    \/ seed_seg_insert(p)
    \/ seed_crt_find(p)
    \/ seed_crt_insert(p)
    \/ seed_return(p)

----------------------------------------------------------------------------
(* Documents the store may hold before the first request.  Fields that are  *)
(* present carry values the schemas of src/schemas.py admit; any field may  *)
(* be absent, since the store itself validates nothing.                     *)

SegmentPool == <<
    [name |-> "Tech (legacy)", slug |-> "technology"],
    [name |-> "Music", slug |-> "music",
     description |-> "Bands, producers, DJs", color |-> "#F472B6"],
    [slug |-> "gaming", color |-> "#000000"] >>

CreatorPool == <<
    [name |-> "Nova (legacy)", handle |-> "technova",
     segments |-> <<"technology">>, followers |-> 100, rating |-> 21],
    [name |-> "A", segments |-> <<"gaming">>, followers |-> 500],
    [name |-> "B", segments |-> <<"technology">>, followers |-> 900],
    [name |-> "D", followers |-> 300, verified |-> TRUE],
    [name |-> "E", handle |-> "e_live", segments |-> <<"gaming">>],
    [handle |-> "ghost", segments |-> <<"gaming">>, followers |-> 500] >>

RECURSIVE Pick(_, _)
\* the documents of `pool` at the positions S, in pool order
Pick(pool, S) ==
    IF S = {} THEN <<>>
    ELSE LET m == CHOOSE i \in S : \A j \in S : j <= i
         IN  Append(Pick(pool, S \ {m}), pool[m])

InitialDocs(pool) ==
    {Pick(pool, S) : S \in {T \in SUBSET (1..Len(pool)) : Cardinality(T) <= MaxInitDocs}}

\* the store gave each document its _id when it was inserted
WithIds(docs, base) ==
    [i \in 1..Len(docs) |->
        [k \in DOMAIN docs[i] \cup {"_id"} |->
            IF k = "_id" THEN base + i ELSE docs[i][k]]]

EnvUrls == {"", "mongodb://h1", "mongodb://h2"}

EnvNames == {"", "db_a", "db_b"}

Init ==
    /\ env_url \in EnvUrls
    /\ env_name \in EnvNames
    /\ db = connect(env_url, env_name)
    /\ \E segs \in InitialDocs(SegmentPool), crts \in InitialDocs(CreatorPool) :
          /\ db = None => segs = <<>> /\ crts = <<>>
          /\ segment_coll = WithIds(segs, 0)
          /\ creator_coll = WithIds(crts, Len(segs))
          /\ next_id = Len(segs) + Len(crts) + 1
    /\ store0 = [segment |-> segment_coll, creator |-> creator_coll]
    /\ seed = [p \in {1} |-> idle]
    /\ seed_resps = <<>>
    /\ resp = NoResp

\* requests are issued one after another: none is in progress, and the
\* response of the one before has been collected
Quiet == resp = NoResp /\ \A p \in DOMAIN seed : seed[p].pc = "idle"

\* the client takes the response
collect ==
    /\ resp # NoResp
    /\ resp' = NoResp
    /\ UNCHANGED <<env_url, env_name, db, segment_coll, creator_coll, store0,
                   next_id, seed, seed_resps>>

----------------------------------------------------------------------------
(* GET /segments *)

\* the framework's answer to an exception a handler lets escape
internal_error(endpoint, ops) ==
    [endpoint |-> endpoint, status |-> 500, detail |-> "Internal Server Error",
     store_ops |-> ops]

failure(endpoint, r) ==
    [endpoint |-> endpoint, status |-> r.status, detail |-> r.detail,
     store_ops |-> r.store_ops]

\* get_documents(collection_name): every document of the collection
get_documents(coll) == coll

\* SegmentOut declares name: str and slug: str; None is rejected
SegmentOut_validates(d) == "name" \in DOMAIN d /\ "slug" \in DOMAIN d

SegmentOut(d) ==
    [name |-> Get(d, "name", None), slug |-> Get(d, "slug", None),
     description |-> Get(d, "description", None), color |-> Get(d, "color", None)]

list_segments_response(dbh, coll) ==
    IF db_is_none(dbh) THEN failure("/segments", not_configured)
    ELSE LET docs == get_documents(coll)
         IN  IF \A i \in 1..Len(docs) : SegmentOut_validates(docs[i])
             THEN [endpoint |-> "/segments", status |-> 200,
                   body |-> [i \in 1..Len(docs) |-> SegmentOut(docs[i])],
                   store_ops |-> 1]
             ELSE internal_error("/segments", 1)

list_segments ==
    /\ Quiet
    /\ resp' = list_segments_response(db, segment_coll)
    /\ UNCHANGED <<env_url, env_name, db, segment_coll, creator_coll, store0,
                   next_id, seed, seed_resps>>

----------------------------------------------------------------------------
(* GET /top-creators *)

DefaultLimit == 8

\* the query string: a function from the parameters it gives to their values
Queries ==
    LET Segs == {"", "gaming", "technology"}
        Limits == {-1, 0, 1, 2}
    IN  {[segment |-> sg, limit |-> l] : sg \in Segs, l \in Limits}
        \cup {[segment |-> sg] : sg \in Segs}
        \cup {[limit |-> l] : l \in Limits}
        \cup {[limit |-> DefaultLimit]}

\* `if segment:` with segment defaulting to None
segment_given(query) == "segment" \in DOMAIN query /\ query.segment # ""

limit_of(query) == Get(query, "limit", DefaultLimit)

\* the filter never built: every document is selected
filter_matches_all(d, query) == TRUE

\* the filter {"segments": {"$in": [segment]}} or {} applied to one document
filter_matches(d, query) ==
    IF segment_given(query)
    THEN "segments" \in DOMAIN d /\ query.segment \in Range(d.segments)
    ELSE TRUE

\* find(filt): the positions of the documents the filter selects
find(coll, query) == {i \in 1..Len(coll) : filter_matches(coll[i], query)}

\* the sort ascending: sort("followers", 1)
sorts_before_ascending(a, b) ==
    \/ "followers" \notin DOMAIN a
    \/ "followers" \in DOMAIN b /\ a.followers <= b.followers

\* sort("followers", -1): a may come before b.  A document without the field
\* sorts as null, below every number.
sorts_before(a, b) ==
    \/ "followers" \notin DOMAIN b
    \/ "followers" \in DOMAIN a /\ a.followers >= b.followers

RECURSIVE sorted_orders(_, _)
\* every order of the positions S the sort may produce (ties in any order)
sorted_orders(coll, S) ==
    IF S = {} THEN {<<>>}
    ELSE UNION {{<<i>> \o t : t \in sorted_orders(coll, S \ {i})} :
                  i \in {j \in S : \A k \in S : sorts_before(coll[j], coll[k])}}

\* cursor.limit(n): the driver takes 0 as "no limit" and a negative n as abs(n)
cursor_limit(order, n) ==
    IF n = 0 THEN order ELSE Prefix(order, Abs(n))

\* CreatorOut declares name: str; None is rejected
CreatorOut_validates(d) == "name" \in DOMAIN d

\* str(d.get("_id"))
id_str(d) == IF "_id" \in DOMAIN d THEN ToString(d["_id"]) ELSE "None"

\* CreatorOut with followers defaulting to -1 instead of 0
CreatorOut_unknown_followers(d) ==
    [id |-> id_str(d),
     name |-> Get(d, "name", None),
     handle |-> Get(d, "handle", None),
     avatar_url |-> Get(d, "avatar_url", None),
     segments |-> Get(d, "segments", <<>>),
     followers |-> Get(d, "followers", -1),
     rating |-> Get(d, "rating", 0),
     verified |-> Get(d, "verified", FALSE)]

CreatorOut(d) ==
    [id |-> id_str(d),
     name |-> Get(d, "name", None),
     handle |-> Get(d, "handle", None),
     avatar_url |-> Get(d, "avatar_url", None),
     segments |-> Get(d, "segments", <<>>),
     followers |-> Get(d, "followers", 0),
     rating |-> Get(d, "rating", 0),
     verified |-> Get(d, "verified", FALSE)]

\* the response for one order the cursor may deliver
top_creators_result(coll, query, order) ==
    LET docs == cursor_limit(order, limit_of(query))
    IN  IF \A i \in 1..Len(docs) : CreatorOut_validates(coll[docs[i]])
        THEN [endpoint |-> "/top-creators", query |-> query, status |-> 200,
              body |-> [i \in 1..Len(docs) |-> CreatorOut(coll[docs[i]])],
              store_ops |-> 1]
        ELSE [endpoint |-> "/top-creators", query |-> query, status |-> 500,
              detail |-> "Internal Server Error", store_ops |-> 1]

top_creators_responses(dbh, coll, query) ==
    IF db_is_none(dbh)
    THEN {[endpoint |-> "/top-creators", query |-> query, status |-> 500,
           detail |-> not_configured.detail, store_ops |-> 0]}
    ELSE {top_creators_result(coll, query, order) :
             order \in sorted_orders(coll, find(coll, query))}

top_creators(query) ==
    /\ Quiet
    /\ resp' \in top_creators_responses(db, creator_coll, query)
    /\ UNCHANGED <<env_url, env_name, db, segment_coll, creator_coll, store0,
                   next_id, seed, seed_resps>>

----------------------------------------------------------------------------
(* GET /test, GET / and GET /api/hello *)

\* collections[:10]
CollectionsShown == 10

\* str(e)[:50]
ErrorChars == 50

CollectionNames ==
    <<"segment", "creator", "user", "product", "order", "session", "event",
      "audit", "media", "tag", "comment", "invoice">>

\* an exception message of n characters
Message(n) == [i \in 1..n |-> <<"t", "i", "m", "e", "d", " ", "o", "u">>[((i - 1) % 8) + 1]]

\* what db.list_collection_names() may do: return names, or raise
Listings ==
    {[ok |-> TRUE, names |-> Prefix(CollectionNames, n)] : n \in {0, 2, 10, 12}}
    \cup {[ok |-> FALSE, message |-> Message(n)] : n \in {0, 17, 50, 51, 64}}

NoListing == [ok |-> TRUE, names |-> <<>>]

\* the status object of test_database; the f-string is a sequence of its parts
\* (the glyph that starts each text of the source is left out)
test_database_body(dbh, url, name, listing) ==
    LET response == [backend |-> "Running",
                     database |-> <<"Not Available">>,
                     database_url |-> None,
                     database_name |-> None,
                     connection_status |-> "Not Connected",
                     collections |-> <<>>]
    IN  IF dbh # None
        THEN LET r1 == [response EXCEPT
                          !.database_url = IF url # "" THEN "Set" ELSE "Not Set",
                          !.database_name = IF name # "" THEN name ELSE "Not Set",
                          !.connection_status = "Connected"]
             IN  IF listing.ok
                 THEN [r1 EXCEPT
                          !.collections = Prefix(listing.names, CollectionsShown),
                          !.database = <<"Connected & Working">>]
                 ELSE [r1 EXCEPT
                          !.database = <<"Connected but Error: ">>
                                       \o Prefix(listing.message, ErrorChars)]
        ELSE [response EXCEPT !.database = <<"Available but not initialized">>]

\* test_database without the inner try: the listing's exception escapes
test_database_response_unguarded(dbh, url, name, listing) ==
    IF dbh # None /\ ~listing.ok
    THEN [endpoint |-> "/test", status |-> 500, listing |-> listing,
          detail |-> "Internal Server Error", store_ops |-> 1]
    ELSE [endpoint |-> "/test", status |-> 200, listing |-> listing,
          body |-> test_database_body(dbh, url, name, listing),
          store_ops |-> IF dbh # None THEN 1 ELSE 0]

test_database_response(dbh, url, name, listing) ==
    [endpoint |-> "/test", status |-> 200, listing |-> listing,
     body |-> test_database_body(dbh, url, name, listing),
     store_ops |-> IF dbh # None THEN 1 ELSE 0]

test_database ==
    /\ Quiet
    /\ \E listing \in IF db = None THEN {NoListing} ELSE Listings :
          resp' = test_database_response(db, env_url, env_name, listing)
    /\ UNCHANGED <<env_url, env_name, db, segment_coll, creator_coll, store0,
                   next_id, seed, seed_resps>>

read_root ==
    /\ Quiet
    /\ resp' = [endpoint |-> "/", status |-> 200,
                body |-> [message |-> "Creator Social API running"],
                store_ops |-> 0]
    /\ UNCHANGED <<env_url, env_name, db, segment_coll, creator_coll, store0,
                   next_id, seed, seed_resps>>

hello ==
    /\ Quiet
    /\ resp' = [endpoint |-> "/api/hello", status |-> 200,
                body |-> [message |-> "Hello from the Creator Social backend!"],
                store_ops |-> 0]
    /\ UNCHANGED <<env_url, env_name, db, segment_coll, creator_coll, store0,
                   next_id, seed, seed_resps>>

----------------------------------------------------------------------------
(* Requests issued one after another, from any initial store *)

Next ==
    \/ \E p \in DOMAIN seed : seed_data(p)
    \/ list_segments
    \/ \E query \in Queries : top_creators(query)
    \/ test_database
    \/ read_root
    \/ hello
    \/ collect

Spec == Init /\ [][Next]_vars

----------------------------------------------------------------------------
(* Concurrent seeding: two handler threads of POST /seed on an empty store *)

ConcInit ==
    /\ env_url = "mongodb://h1"
    /\ env_name = "db_a"
    /\ db = connect(env_url, env_name)
    /\ segment_coll = <<>>
    /\ creator_coll = <<>>
    /\ store0 = [segment |-> segment_coll, creator |-> creator_coll]
    /\ next_id = 1
    /\ seed = [p \in 1..2 |-> idle]
    /\ seed_resps = <<>>
    /\ resp = NoResp

ConcNext == \E p \in DOMAIN seed : seed_data(p)

ConcSpec == ConcInit /\ [][ConcNext]_vars

----------------------------------------------------------------------------
(* Properties *)

\* how many documents of coll have the value v in field k
Count(coll, k, v) ==
    Cardinality({i \in 1..Len(coll) : k \in DOMAIN coll[i] /\ coll[i][k] = v})

EmptyStart == store0.segment = <<>> /\ store0.creator = <<>>

\* C1: seeding is idempotent. From an empty store with a configured database,
\* the first POST /seed reports 4 segments and 4 creators created, every later
\* one (run one after another) reports 0 and 0, the collections hold 4
\* documents each from the first response on, and no seed slug or seed handle
\* is ever held by two documents.
C1_SeedIdempotent ==
    (db # None /\ EmptyStart) =>
        /\ \A k \in 1..Len(seed_resps) :
              /\ seed_resps[k].status = 200
              /\ seed_resps[k].segments_created = (IF k = 1 THEN 4 ELSE 0)
              /\ seed_resps[k].creators_created = (IF k = 1 THEN 4 ELSE 0)
        /\ Len(seed_resps) >= 1 => Len(segment_coll) = 4 /\ Len(creator_coll) = 4
        /\ \A sl \in SeedSlugs : Count(segment_coll, "slug", sl) <= 1
        /\ \A h \in SeedHandles : Count(creator_coll, "handle", h) <= 1

C1_Witness ==
    /\ db # None /\ EmptyStart
    /\ Len(seed_resps) = 2
    /\ seed_resps[1].segments_created = 4 /\ seed_resps[1].creators_created = 4
    /\ seed_resps[2].segments_created = 0 /\ seed_resps[2].creators_created = 0
    /\ Len(segment_coll) = 4 /\ Len(creator_coll) = 4

\* C2: natural-key dedup without overwrite. Every document the store held at
\* the start is still there, field for field; a seed slug (handle) some
\* document held at the start is held by no further document; and no POST /seed
\* counts more created records than there were seed slugs (handles) missing at
\* the start.
C2_DedupNoOverwrite ==
    /\ Len(segment_coll) >= Len(store0.segment)
    /\ Len(creator_coll) >= Len(store0.creator)
    /\ \A i \in 1..Len(store0.segment) : segment_coll[i] = store0.segment[i]
    /\ \A i \in 1..Len(store0.creator) : creator_coll[i] = store0.creator[i]
    /\ \A sl \in SeedSlugs :
          Count(store0.segment, "slug", sl) > 0 =>
              Count(segment_coll, "slug", sl) = Count(store0.segment, "slug", sl)
    /\ \A h \in SeedHandles :
          Count(store0.creator, "handle", h) > 0 =>
              Count(creator_coll, "handle", h) = Count(store0.creator, "handle", h)
    /\ \A k \in 1..Len(seed_resps) :
          seed_resps[k].status = 200 =>
              /\ seed_resps[k].segments_created <=
                    Cardinality({sl \in SeedSlugs : Count(store0.segment, "slug", sl) = 0})
              /\ seed_resps[k].creators_created <=
                    Cardinality({h \in SeedHandles : Count(store0.creator, "handle", h) = 0})

C2_Witness ==
    /\ Count(store0.segment, "slug", "technology") = 1
    /\ Count(store0.creator, "handle", "technova") = 1
    /\ Len(seed_resps) >= 1
    /\ seed_resps[1].segments_created = 3
    /\ seed_resps[1].creators_created = 3
    /\ segment_coll[1].name = "Tech (legacy)"
    /\ "description" \notin DOMAIN segment_coll[1]
    /\ Count(segment_coll, "slug", "technology") = 1
    /\ Count(creator_coll, "handle", "technova") = 1

\* C3: with no database handle, POST /seed, GET /segments and GET /top-creators
\* answer 500 "Database not configured" after no call on the store, the store
\* is as it was, and GET /, GET /test and GET /api/hello answer 200.
C3_NotConfigured ==
    db = None =>
        /\ \A k \in 1..Len(seed_resps) :
              /\ seed_resps[k].status = 500
              /\ seed_resps[k].detail = "Database not configured"
              /\ seed_resps[k].store_ops = 0
        /\ resp.endpoint \in {"/segments", "/top-creators"} =>
              /\ resp.status = 500
              /\ resp.detail = "Database not configured"
              /\ resp.store_ops = 0
        /\ resp.endpoint \in {"/", "/test", "/api/hello"} => resp.status = 200
        /\ segment_coll = store0.segment /\ creator_coll = store0.creator
        /\ \A p \in DOMAIN seed : seed[p].pc = "idle"

C3_Witness ==
    /\ db = None
    /\ Len(seed_resps) = 2
    /\ seed_resps[2].status = 500
    /\ resp.endpoint = "/top-creators"
    /\ resp.status = 500

\* the creators a request for `query` is about: those that hold the requested
\* slug in `segments`, or all of them when no slug is requested
SlugRequested(query) == "segment" \in DOMAIN query /\ query.segment # ""

Wanted(query) ==
    {i \in 1..Len(creator_coll) :
        SlugRequested(query) =>
            query.segment \in Range(Get(creator_coll[i], "segments", <<>>))}

Returned == {resp.body[i].id : i \in 1..Len(resp.body)}

TopCreatorsOk == resp.endpoint = "/top-creators" /\ resp.status = 200

\* C4: limit boundary of GET /top-creators. A limit of 0 returns the empty
\* sequence, a limit above the number of matching creators returns all of
\* them, and the result never has more than `limit` entries (for a limit that
\* is a count, 0 or more).
C4_LimitBoundary ==
    TopCreatorsOk =>
        LET l == Get(resp.query, "limit", 8)
            n == Cardinality(Wanted(resp.query))
        IN  l >= 0 =>
                /\ l = 0 => resp.body = <<>>
                /\ l > n => Len(resp.body) = n
                /\ Len(resp.body) <= l

\* C5: filter correctness of GET /top-creators. With a slug requested, every
\* returned creator holds it in `segments`; no creator outside the requested
\* ones is returned; and with a limit above their number exactly the requested
\* creators (all creators, when no slug is requested) are returned.
C5_FilterCorrect ==
    TopCreatorsOk =>
        LET want == {ToString(creator_coll[i]["_id"]) : i \in Wanted(resp.query)}
        IN  /\ SlugRequested(resp.query) =>
                  \A i \in 1..Len(resp.body) :
                      resp.query.segment \in Range(resp.body[i].segments)
            /\ Returned \subseteq want
            /\ Cardinality(Returned) = Len(resp.body)
            /\ Get(resp.query, "limit", 8) > Cardinality(want) => Returned = want

C5_Witness ==
    /\ TopCreatorsOk
    /\ resp.query = [segment |-> "gaming"]
    /\ Len(creator_coll) = 2
    /\ creator_coll[1].name = "A" /\ creator_coll[1].followers = 500
    /\ creator_coll[2].name = "B" /\ creator_coll[2].followers = 900
    /\ Len(resp.body) = 1
    /\ resp.body[1].name = "A"

\* C6: sort order of GET /top-creators. The returned followers are
\* non-increasing, and no requested creator that was left out has more
\* followers than a returned one.
C6_SortedByFollowers ==
    TopCreatorsOk =>
        /\ \A i, j \in 1..Len(resp.body) :
              i < j => resp.body[i].followers >= resp.body[j].followers
        /\ \A k \in Wanted(resp.query) :
              ToString(creator_coll[k]["_id"]) \notin Returned =>
                  \A i \in 1..Len(resp.body) :
                      Get(creator_coll[k], "followers", 0) <= resp.body[i].followers

C6_Witness ==
    /\ TopCreatorsOk
    /\ resp.query = [limit |-> 8]
    /\ Len(creator_coll) = 3
    /\ creator_coll[1].followers = 100
    /\ creator_coll[2].followers = 500
    /\ creator_coll[3].followers = 300
    /\ Len(resp.body) = 3
    /\ resp.body[1].followers = 500
    /\ resp.body[2].followers = 300
    /\ resp.body[3].followers = 100

\* C7: GET /test reports only whether the two settings are present. A second
\* run that differs from this one only in the value of the connection string
\* or of the database name, present in both or absent in both, answers the
\* same listing outcome with the same status object.
C7_PresenceOnly ==
    resp.endpoint = "/test" =>
        \A url2 \in EnvUrls, name2 \in EnvNames :
            ((url2 = "") = (env_url = "") /\ (name2 = "") = (env_name = "")) =>
                test_database_body(connect(url2, name2), url2, name2, resp.listing)
                    = resp.body

\* C8: GET /test never raises. It answers 200 with the status object whether
\* the handle is absent, the listing works or the listing raises; a raised
\* error is reported as the first 50 characters of its message at most, and a
\* working listing shows the first 10 collection names at most.
C8_TestNeverRaises ==
    resp.endpoint = "/test" =>
        /\ resp.status = 200
        /\ DOMAIN resp.body = {"backend", "database", "database_url", "database_name",
                               "connection_status", "collections"}
        /\ Len(resp.body.collections) <= 10
        /\ db = None => resp.body.collections = <<>> /\ resp.store_ops = 0
        /\ (db # None /\ resp.listing.ok) =>
              /\ Len(resp.body.collections) = Min(10, Len(resp.listing.names))
              /\ \A i \in 1..Len(resp.body.collections) :
                    resp.body.collections[i] = resp.listing.names[i]
        /\ (db # None /\ ~resp.listing.ok) =>
              LET shown == Tail(resp.body.database)
              IN  /\ Head(resp.body.database) = "Connected but Error: "
                  /\ Len(shown) = Min(50, Len(resp.listing.message))
                  /\ \A i \in 1..Len(shown) : shown[i] = resp.listing.message[i]
                  /\ resp.body.collections = <<>>

C8_Witness ==
    /\ resp.endpoint = "/test"
    /\ db # None
    /\ ~resp.listing.ok
    /\ Len(resp.listing.message) > 50
    /\ resp.status = 200
    /\ Len(Tail(resp.body.database)) = 50

\* the stored creator a returned entry was made from
Stored(id) == CHOOSE d \in Range(creator_coll) : ToString(d["_id"]) = id

RECURSIVE Sum(_, _)
Sum(f, S) ==
    IF S = {} THEN 0
    ELSE LET x == CHOOSE y \in S : TRUE IN f[x] + Sum(f, S \ {x})

\* C10: the check-then-insert of POST /seed is not atomic. Under concurrent
\* invocations every stored record was counted as created by exactly one
\* invocation (the records inserted are as many as the invocations count), and
\* a slug or handle is held by at most as many records as there are handler
\* threads; the state in which two records share a slug and two share a
\* handle, each counted by both invocations, is reached (C10_Witness).
C10_RacingSeeds ==
    /\ Len(segment_coll) =
          Sum([p \in DOMAIN seed |-> seed[p].created_segments], DOMAIN seed)
          + Sum([k \in 1..Len(seed_resps) |-> seed_resps[k].segments_created],
                1..Len(seed_resps))
    /\ Len(creator_coll) =
          Sum([p \in DOMAIN seed |-> seed[p].created_creators], DOMAIN seed)
          + Sum([k \in 1..Len(seed_resps) |-> seed_resps[k].creators_created],
                1..Len(seed_resps))
    /\ \A sl \in SeedSlugs :
          Count(segment_coll, "slug", sl) <= Cardinality(DOMAIN seed)
    /\ \A h \in SeedHandles :
          Count(creator_coll, "handle", h) <= Cardinality(DOMAIN seed)

C10_Witness ==
    /\ Len(seed_resps) = 2
    /\ Count(segment_coll, "slug", "technology") = 2
    /\ Count(creator_coll, "handle", "technova") = 2
    /\ \A k \in 1..2 :
          /\ seed_resps[k].segments_created = 4
          /\ seed_resps[k].creators_created = 4

====
